---- MODULE Spec2Model ----
(***************************************************************************)
(* Buyva backend: the authentication / authorization interceptor chain     *)
(* (protect, authorize, isOwner), the user router that wires it, and the   *)
(* profile store and identity service the chain reads.                     *)
(***************************************************************************)
EXTENDS Integers, Sequences, FiniteSets, TLC

\* ------------------------------------------------------------------------
\* Bounds
\* ------------------------------------------------------------------------
\* cap on the number of remote calls one request may issue of each kind
MaxCalls == 2
\* number of requests that arrive in one run
MaxArrivals == 2
\* migration files that may be written, and runs of migrate up
MaxFiles == 3
MaxRuns == 2

\* ------------------------------------------------------------------------
\* Program constants
\* ------------------------------------------------------------------------
UNAUTHORIZED == 401
FORBIDDEN == 403
NOT_FOUND == 404
INTERNAL_SERVER_ERROR == 500
OK == 200
BAD_REQUEST == 400
NO_CONTENT == 204
CREATED == 201

\* ------------------------------------------------------------------------
\* Domains
\* ------------------------------------------------------------------------
Slots == {1, 2}
Users == {"u1", "u2"}
UserRole == {"customer", "vendor", "admin"}
NoRow == "norow"
Builds == {"js", "ts"}

\* tokens the identity service has issued, and the subject of each
TokenUser == [t \in {"t1", "t2"} |-> IF t = "t1" THEN "u1" ELSE "u2"]

\* an Authorization header value, as the words separated by single spaces
\* (<<>> is an absent header)
Headers == {<<>>, <<"Basic", "t1">>, <<"Bearer", "t1">>, <<"Bearer", "t2">>,
            <<"Bearer", "bad">>}
Cookies == {"", "t1"}
Methods == {"GET", "PATCH", "DELETE", "POST", "PUT"}
Shapes == {"root", "me", "id", "role", "signup", "login", "logout"}
BodyRoles == {"customer", "admin", "root"}

NoUser == [id |-> "", role |-> ""]
NoRes == [code |-> 0, status |-> "", message |-> ""]

\* ------------------------------------------------------------------------
\* Route table
\* ------------------------------------------------------------------------
Layer(kind, roles, owner, path, handlers) ==
  [kind |-> kind, roles |-> roles, owner |-> owner, path |-> path,
   handlers |-> handlers]

ProtectLayer == Layer("protect", {}, "", "", {})
AuthorizeLayer(roles) == Layer("authorize", roles, "", "", {})
IsOwnerLayer(owner) == Layer("isOwner", {}, owner, "", {})
RouteLayer(path, handlers) == Layer("route", {}, "", path, handlers)
\* a handler mounted behind the interceptors, whatever the method and path
Endpoint == Layer("endpoint", {}, "", "", {})

\* the user router with the admin routes registered ahead of authorize
UserRouterUnguarded ==
  << ProtectLayer,
     RouteLayer("me", {<<"GET", "getCurrentUser">>, <<"PATCH", "updateProfile">>,
                       <<"DELETE", "deleteAccount">>}),
     RouteLayer("root", {<<"GET", "getUsers">>}),
     RouteLayer("id", {<<"GET", "getUser">>, <<"DELETE", "deleteUser">>}),
     RouteLayer("role", {<<"PATCH", "updateRole">>}),
     AuthorizeLayer({"admin"}) >>

\* the user router with authorize registered ahead of protect
UserRouterAuthorizeFirst ==
  << AuthorizeLayer({"admin"}),
     ProtectLayer,
     RouteLayer("me", {<<"GET", "getCurrentUser">>, <<"PATCH", "updateProfile">>,
                       <<"DELETE", "deleteAccount">>}),
     RouteLayer("root", {<<"GET", "getUsers">>}),
     RouteLayer("id", {<<"GET", "getUser">>, <<"DELETE", "deleteUser">>}),
     RouteLayer("role", {<<"PATCH", "updateRole">>}) >>

\* the user router: protect, /me, authorize('admin'), /, /:id, /:id/role
UserRouter ==
  << ProtectLayer,
     RouteLayer("me", {<<"GET", "getCurrentUser">>, <<"PATCH", "updateProfile">>,
                       <<"DELETE", "deleteAccount">>}),
     AuthorizeLayer({"admin"}),
     RouteLayer("root", {<<"GET", "getUsers">>}),
     RouteLayer("id", {<<"GET", "getUser">>, <<"DELETE", "deleteUser">>}),
     RouteLayer("role", {<<"PATCH", "updateRole">>}) >>

\* the auth router: the public signup and login routes, then protect, then
\* /me and /logout
AuthRouter ==
  << RouteLayer("signup", {<<"POST", "signup">>}),
     RouteLayer("login", {<<"POST", "login">>}),
     ProtectLayer,
     RouteLayer("me", {<<"PUT", "auth.updateProfile">>,
                       <<"DELETE", "auth.deleteAccount">>}),
     RouteLayer("logout", {<<"POST", "logout">>}) >>

AdminHandlers == {"getUsers", "getUser", "deleteUser", "updateRole"}

\* does the route path pattern match the request path?  '/:id' also
\* matches '/me' (with id = 'me')
PathMatches(pattern, shape) ==
  \/ pattern = shape
  \/ pattern = "id" /\ shape = "me"

HandlerFor(layer, method) ==
  IF \E h \in layer.handlers : h[1] = method
  THEN (CHOOSE h \in layer.handlers : h[1] = method)[2]
  ELSE ""

Matches(layer, q) ==
  IF layer.kind = "route"
  THEN PathMatches(layer.path, q.shape) /\ HandlerFor(layer, q.method) # ""
  ELSE TRUE

\* the first layer at or after index from that handles the request, or 0
NextLayer(q, from) ==
  IF \E i \in from..Len(q.stack) : Matches(q.stack[i], q)
  THEN CHOOSE i \in from..Len(q.stack) :
         /\ Matches(q.stack[i], q)
         /\ \A j \in from..(i - 1) : ~Matches(q.stack[j], q)
  ELSE 0

\* ------------------------------------------------------------------------
\* Responses
\* ------------------------------------------------------------------------
Res(code, status, message) == [code |-> code, status |-> status, message |-> message]

Respond(q, res) == [q EXCEPT !.res = res, !.pc = "done", !.sends = q.sends + 1]

\* next(): hand the request to the next matching layer; a request no layer
\* handles reaches the application's notFoundHandler
CallNext(q) ==
  LET n == NextLayer(q, q.layer + 1)
      q1 == [q EXCEPT !.nexts = q.nexts + 1]
  IN IF n = 0
     THEN [q1 EXCEPT !.res = Res(NOT_FOUND, "error", "Not Found"), !.pc = "done",
                     !.layer = 0]
     ELSE [q1 EXCEPT !.layer = n, !.pc = "enter"]

\* next(err): the application's errorHandler answers
CallNextErr(q) ==
  [q EXCEPT !.res = Res(INTERNAL_SERVER_ERROR, "error", "Something went wrong!"),
            !.pc = "done"]

\* ------------------------------------------------------------------------
\* State
\* ------------------------------------------------------------------------
VARIABLES
  reqs,        \* the request handled in each slot: inputs, position, context
  profiles,    \* profile store: role of each user's row, or NoRow
  identities,  \* identity service: the users it knows
  build,       \* which copy of the sources is deployed: "js" or "ts"
  arrivals,    \* number of requests received so far
  mig,         \* the migrate command: migration files, _migrations, the run
  sessions     \* sessions alive at the identity service, and the session
               \* the server's one supabase client holds

vars == <<reqs, profiles, identities, build, arrivals, mig, sessions>>

\* nobody is signed in and the client holds no session
NoSessions == [live |-> {}, client |-> ""]

\* no migration file written, nothing recorded, no run of the command yet
IdleMig ==
  [pc |-> "idle", files |-> {}, table |-> {}, before |-> {}, appliedSet |-> {},
   todo |-> <<>>, log |-> <<>>, eres |-> "", runs |-> 0]

IdleReq ==
  [pc |-> "idle", stack |-> <<>>, layer |-> 0,
   header |-> <<>>, cookie |-> "", method |-> "GET", shape |-> "root",
   pid |-> "", brole |-> "",
   ident |-> "", user |-> NoUser, token |-> "", res |-> NoRes,
   nexts |-> 0, sends |-> 0, vcalls |-> 0, pcalls |-> 0, rcalls |-> 0,
   vres |-> "", pres |-> "", ares |-> "", cached |-> "", fetched |-> "",
   lookups |-> 0, signups |-> 0, lres |-> "", password |-> "",
   protectOk |-> FALSE, authzOk |-> FALSE, ownerOk |-> FALSE, handler |-> ""]

\* ------------------------------------------------------------------------
\* External collaborators
\* ------------------------------------------------------------------------
Outcome(kind, user, role) == [kind |-> kind, user |-> user, role |-> role]
Throw == Outcome("throw", "", "")
Error == Outcome("error", "", "")
Empty == Outcome("empty", "", "")

\* supabase.auth.getUser(token): { data: { user }, error }, or a thrown
\* network failure
VerifyOutcomes(token) ==
  IF token \in DOMAIN TokenUser /\ TokenUser[token] \in identities
  THEN {Outcome("ok", TokenUser[token], ""), Error, Throw}
  ELSE {Error, Empty, Throw}

\* a profile read without its .eq('id', id) filter: any user's row may come
\* back
ReadOutcomesAnyRow(id) ==
  {Outcome("ok", u, profiles[u]) : u \in {v \in Users : profiles[v] # NoRow}}
  \cup {Error, Empty, Throw}

\* supabase.from('profiles').select(..).eq('id', id).single():
\* { data, error }, or a thrown network failure
ReadOutcomes(id) ==
  IF id \in Users /\ profiles[id] # NoRow
  THEN {Outcome("ok", id, profiles[id]), Error, Throw}
  ELSE {Error, Empty, Throw}

\* ------------------------------------------------------------------------
\* protect
\* ------------------------------------------------------------------------
\* a header check that forgets the scheme
HasBearerAnyScheme(h) == Len(h) >= 2

\* authHeader && authHeader.startsWith('Bearer ')
HasBearer(h) == Len(h) >= 2 /\ h[1] = "Bearer"

\* authHeader.split(' ')[1]
BearerToken(h) == h[2]

\* the JavaScript copy of protect answers without a status field
ProtectStatus(b) == IF b = "ts" THEN "error" ELSE ""

\* header check, then the verify call is issued
ProtectEnter(q, b) ==
  IF ~HasBearer(q.header)
  THEN Respond(q, Res(UNAUTHORIZED, ProtectStatus(b), "Not authorized, no token provided"))
  ELSE [q EXCEPT !.pc = "verify", !.vcalls = q.vcalls + 1]

\* protect answering an invalid token with 403
ProtectVerifiedForbidden(q, o, b) ==
  LET q1 == [q EXCEPT !.vres = o.kind]
  IN CASE o.kind = "throw" ->
            Respond(q1, Res(UNAUTHORIZED, ProtectStatus(b), "Not authorized, authentication failed"))
       [] o.kind \in {"error", "empty"} ->
            Respond(q1, Res(FORBIDDEN, ProtectStatus(b), "Not authorized, invalid token"))
       [] OTHER ->
            [q1 EXCEPT !.ident = o.user, !.pc = "profile", !.pcalls = q.pcalls + 1]

\* protect passing the request on when the verify call throws
ProtectVerifiedFailOpen(q, o, b) ==
  LET q1 == [q EXCEPT !.vres = o.kind]
  IN CASE o.kind = "throw" -> CallNext(q1)
       [] o.kind \in {"error", "empty"} ->
            Respond(q1, Res(UNAUTHORIZED, ProtectStatus(b), "Not authorized, invalid token"))
       [] OTHER ->
            [q1 EXCEPT !.ident = o.user, !.pc = "profile", !.pcalls = q.pcalls + 1]

\* protect issuing the verify call once more when it throws
ProtectVerifiedRetry(q, o, b) ==
  LET q1 == [q EXCEPT !.vres = o.kind]
  IN CASE o.kind = "throw" /\ q.vcalls < MaxCalls ->
            [q1 EXCEPT !.pc = "verify", !.vcalls = q.vcalls + 1]
       [] o.kind = "throw" ->
            Respond(q1, Res(UNAUTHORIZED, ProtectStatus(b), "Not authorized, authentication failed"))
       [] o.kind \in {"error", "empty"} ->
            Respond(q1, Res(UNAUTHORIZED, ProtectStatus(b), "Not authorized, invalid token"))
       [] OTHER ->
            [q1 EXCEPT !.ident = o.user, !.pc = "profile", !.pcalls = q.pcalls + 1]

\* the verify call resolved with outcome o
ProtectVerified(q, o, b) ==
  LET q1 == [q EXCEPT !.vres = o.kind]
  IN CASE o.kind = "throw" ->
            Respond(q1, Res(UNAUTHORIZED, ProtectStatus(b), "Not authorized, authentication failed"))
       [] o.kind \in {"error", "empty"} ->
            Respond(q1, Res(UNAUTHORIZED, ProtectStatus(b), "Not authorized, invalid token"))
       [] OTHER ->
            [q1 EXCEPT !.ident = o.user, !.pc = "profile", !.pcalls = q.pcalls + 1]

\* protect attaching the token before it looks at the profile read
ProtectProfileEarlyAttach(q, o, b) ==
  LET q1 == [q EXCEPT !.pres = o.kind, !.token = BearerToken(q.header)]
  IN CASE o.kind = "throw" ->
            Respond(q1, Res(UNAUTHORIZED, ProtectStatus(b), "Not authorized, authentication failed"))
       [] o.kind \in {"error", "empty"} ->
            Respond(q1, Res(NOT_FOUND, ProtectStatus(b), "User profile not found"))
       [] OTHER ->
            CallNext([q1 EXCEPT !.user = [id |-> o.user, role |-> o.role],
                                !.cached = o.role, !.protectOk = TRUE])

\* protect answering a missing profile like a missing credential
ProtectProfileUnauthorized(q, o, b) ==
  LET q1 == [q EXCEPT !.pres = o.kind]
  IN CASE o.kind \in {"throw", "error", "empty"} ->
            Respond(q1, Res(UNAUTHORIZED, ProtectStatus(b), "Not authorized, authentication failed"))
       [] OTHER ->
            CallNext([q1 EXCEPT !.user = [id |-> o.user, role |-> o.role],
                                !.token = BearerToken(q.header),
                                !.cached = o.role, !.protectOk = TRUE])

\* protect refusing a token that the context of another request already
\* holds (a token good for one use)
ProtectProfileSingleUse(q, o, b) ==
  LET q1 == [q EXCEPT !.pres = o.kind]
  IN CASE o.kind = "throw" ->
            Respond(q1, Res(UNAUTHORIZED, ProtectStatus(b), "Not authorized, authentication failed"))
       [] o.kind \in {"error", "empty"} ->
            Respond(q1, Res(NOT_FOUND, ProtectStatus(b), "User profile not found"))
       [] \E s \in Slots : reqs[s].token = BearerToken(q.header) ->
            Respond(q1, Res(UNAUTHORIZED, ProtectStatus(b), "Not authorized, invalid token"))
       [] OTHER ->
            CallNext([q1 EXCEPT !.user = [id |-> o.user, role |-> o.role],
                                !.token = BearerToken(q.header),
                                !.cached = o.role, !.protectOk = TRUE])

\* the profile read resolved with outcome o
ProtectProfile(q, o, b) ==
  LET q1 == [q EXCEPT !.pres = o.kind]
  IN CASE o.kind = "throw" ->
            Respond(q1, Res(UNAUTHORIZED, ProtectStatus(b), "Not authorized, authentication failed"))
       [] o.kind \in {"error", "empty"} ->
            Respond(q1, Res(NOT_FOUND, ProtectStatus(b), "User profile not found"))
       [] OTHER ->
            CallNext([q1 EXCEPT !.user = [id |-> o.user, role |-> o.role],
                                !.token = BearerToken(q.header),
                                !.cached = o.role, !.protectOk = TRUE])

\* ------------------------------------------------------------------------
\* authorize(...roles)
\* ------------------------------------------------------------------------
\* the JavaScript copy answers a thrown error without a status field
AuthorizeCatchStatus(b) == IF b = "ts" THEN "error" ELSE ""

\* authorize without its req.user test
AuthorizeEnterUnchecked(q) ==
  [q EXCEPT !.pc = "role", !.rcalls = q.rcalls + 1]

AuthorizeEnter(q) ==
  IF q.user = NoUser
  THEN Respond(q, Res(UNAUTHORIZED, "error", "Not authenticated"))
  ELSE [q EXCEPT !.pc = "role", !.rcalls = q.rcalls + 1]

\* a role test that denies everybody when no role is declared
RoleAllowedStrict(roles, role) == role \in roles

\* may a user holding role pass authorize(...roles)?
RoleAllowed(roles, role) == ~(roles # {} /\ role \notin roles)

\* authorize deciding on the role protect cached
AuthorizeRoleCached(q, roles, o, b) ==
  LET q1 == [q EXCEPT !.ares = o.kind]
  IN CASE o.kind = "throw" ->
            Respond(q1, Res(INTERNAL_SERVER_ERROR, AuthorizeCatchStatus(b),
                            "Server error during authorization"))
       [] o.kind \in {"error", "empty"} ->
            Respond(q1, Res(NOT_FOUND, "error", "User not found"))
       [] OTHER ->
            LET q2 == [q1 EXCEPT !.fetched = o.role]
            IN IF ~RoleAllowed(roles, q.user.role)
               THEN Respond(q2, Res(FORBIDDEN, "error", "Not authorized to access this resource"))
               ELSE CallNext([q2 EXCEPT !.authzOk = TRUE])

\* authorize letting the request through when the store returns no row
AuthorizeRoleLenient(q, roles, o, b) ==
  LET q1 == [q EXCEPT !.ares = o.kind]
  IN CASE o.kind = "throw" ->
            Respond(q1, Res(INTERNAL_SERVER_ERROR, AuthorizeCatchStatus(b),
                            "Server error during authorization"))
       [] o.kind = "error" ->
            Respond(q1, Res(NOT_FOUND, "error", "User not found"))
       [] o.kind = "empty" ->
            CallNext([q1 EXCEPT !.authzOk = TRUE])
       [] OTHER ->
            LET q2 == [q1 EXCEPT !.user.role = o.role, !.fetched = o.role]
            IN IF ~RoleAllowed(roles, o.role)
               THEN Respond(q2, Res(FORBIDDEN, "error", "Not authorized to access this resource"))
               ELSE CallNext([q2 EXCEPT !.authzOk = TRUE])

\* authorize deciding on the fetched role without writing it to req.user
AuthorizeRoleNoOverwrite(q, roles, o, b) ==
  LET q1 == [q EXCEPT !.ares = o.kind]
  IN CASE o.kind = "throw" ->
            Respond(q1, Res(INTERNAL_SERVER_ERROR, AuthorizeCatchStatus(b),
                            "Server error during authorization"))
       [] o.kind \in {"error", "empty"} ->
            Respond(q1, Res(NOT_FOUND, "error", "User not found"))
       [] OTHER ->
            LET q2 == [q1 EXCEPT !.fetched = o.role]
            IN IF ~RoleAllowed(roles, o.role)
               THEN Respond(q2, Res(FORBIDDEN, "error", "Not authorized to access this resource"))
               ELSE CallNext([q2 EXCEPT !.authzOk = TRUE])

\* the role read resolved with outcome o
AuthorizeRole(q, roles, o, b) ==
  LET q1 == [q EXCEPT !.ares = o.kind]
  IN CASE o.kind = "throw" ->
            Respond(q1, Res(INTERNAL_SERVER_ERROR, AuthorizeCatchStatus(b),
                            "Server error during authorization"))
       [] o.kind \in {"error", "empty"} ->
            Respond(q1, Res(NOT_FOUND, "error", "User not found"))
       [] OTHER ->
            LET q2 == [q1 EXCEPT !.user.role = o.role, !.fetched = o.role]
            IN IF ~RoleAllowed(roles, o.role)
               THEN Respond(q2, Res(FORBIDDEN, "error", "Not authorized to access this resource"))
               ELSE CallNext([q2 EXCEPT !.authzOk = TRUE])

\* ------------------------------------------------------------------------
\* isOwner(resourceUserId)
\* ------------------------------------------------------------------------
IsOwnerStatus(b) == IF b = "ts" THEN "error" ELSE ""

\* the JavaScript copy dereferences req.user (a TypeError when it is absent,
\* which Express hands to the error handler); the TypeScript copy tests
\* req.user first and lets the request through when it is absent
IsOwner(q, resourceUserId, b) ==
  IF q.user = NoUser
  THEN IF b = "ts" THEN CallNext(q) ELSE CallNextErr(q)
  ELSE IF q.user.id # resourceUserId /\ q.user.role # "admin"
       THEN Respond(q, Res(FORBIDDEN, IsOwnerStatus(b), "Not authorized to access this resource"))
       ELSE CallNext([q EXCEPT !.ownerOk = TRUE])

\* ------------------------------------------------------------------------
\* Services and handlers behind the interceptors
\* ------------------------------------------------------------------------
ResultS(q, p, ids, ss) == [q |-> q, profiles |-> p, identities |-> ids, sessions |-> ss]

Result(q, p, ids) == ResultS(q, p, ids, sessions)

Sent(q, code) == Respond(q, Res(code, "", ""))

\* the identity service drops the sessions of a user; the client keeps
\* whatever session it holds
SignedOut(userId) == [sessions EXCEPT !.live = sessions.live \ {userId}]

\* getUserById(userId) as used by getCurrentUser and getUser: the row, or a
\* thrown error the handler passes to next(error)
GetUserById(q, userId) ==
  { Result(IF o.kind = "ok" THEN Sent(q, OK) ELSE CallNextErr(q), profiles, identities)
      : o \in ReadOutcomes(userId) }

\* getAllUsers(page, limit): the page, or a thrown error
GetAllUsers(q) ==
  { Result(Sent(q, OK), profiles, identities),
    Result(CallNextErr(q), profiles, identities) }

\* updateProfile: 400 when the body names no field, else updateUserProfile
\* writes display fields only
UpdateProfile(q) ==
  { Result(Sent(q, BAD_REQUEST), profiles, identities) }
  \cup { Result(IF o.kind = "ok" THEN Sent(q, OK) ELSE CallNextErr(q), profiles, identities)
           : o \in ReadOutcomes(q.user.id) }

\* a role column that takes any text
RoleCheckNone(role) == TRUE

\* the role column of profiles: CHECK (role IN ('admin', 'vendor',
\* 'customer')), later the enum user_role; a write of any other value fails
RoleCheck(role) == role \in {"admin", "vendor", "customer"}

\* updateUserRole(userId, role): read the row, then update its role; the
\* update fails when the store refuses the value
UpdateUserRole(q, userId, role) ==
  IF userId \in Users /\ profiles[userId] # NoRow
  THEN { Result(CallNextErr(q), profiles, identities) }
       \cup IF RoleCheck(role)
            THEN { Result(Sent(q, OK), [profiles EXCEPT ![userId] = role], identities) }
            ELSE {}
  ELSE { Result(CallNextErr(q), profiles, identities) }

\* updateRole: the TypeScript copy checks the caller's role and the
\* requested role first; the JavaScript copy passes both through
UpdateRole(q, b) ==
  IF b = "ts" /\ q.user.role # "admin"
  THEN { Result(Sent(q, UNAUTHORIZED), profiles, identities) }
  ELSE IF b = "ts" /\ q.brole \notin {"customer", "vendor", "admin"}
  THEN { Result(Sent(q, BAD_REQUEST), profiles, identities) }
  ELSE UpdateUserRole(q, q.pid, q.brole)

\* deleteUserAccount(userId): rpc('begin'), the identity is deleted, the
\* profile row is deleted, rpc('commit').  profiles.id REFERENCES auth.users
\* ON DELETE CASCADE, so the row goes with the identity; begin, commit and
\* rollback are remote calls of their own that undo nothing.  The service
\* fails before the identity is deleted, or after it (the delete of the row
\* reports an error, or commit throws), or it succeeds
DeleteUserAccount(q, userId) ==
  IF userId \in identities
  THEN { Result(CallNextErr(q), profiles, identities),
         ResultS(CallNextErr(q), [profiles EXCEPT ![userId] = NoRow],
                 identities \ {userId}, SignedOut(userId)),
         ResultS(Sent(q, NO_CONTENT), [profiles EXCEPT ![userId] = NoRow],
                 identities \ {userId}, SignedOut(userId)) }
  ELSE { Result(CallNextErr(q), profiles, identities) }

\* deleteAccount of the auth controller (DELETE /api/auth/me): the identity
\* is deleted, then the profile row; every failure is answered with 500
AuthDeleteAccount(q) ==
  LET userId == q.user.id
  IN IF userId \in identities
     THEN { Result(Sent(q, INTERNAL_SERVER_ERROR), profiles, identities),
            ResultS(Sent(q, INTERNAL_SERVER_ERROR), [profiles EXCEPT ![userId] = NoRow],
                    identities \ {userId}, SignedOut(userId)),
            ResultS(Sent(q, NO_CONTENT), [profiles EXCEPT ![userId] = NoRow],
                    identities \ {userId}, SignedOut(userId)) }
     ELSE { Result(Sent(q, INTERNAL_SERVER_ERROR), profiles, identities) }

DeleteUser(q) ==
  IF q.user.id = q.pid
  THEN { Result(Sent(q, BAD_REQUEST), profiles, identities) }
  ELSE DeleteUserAccount(q, q.pid)

\* updateProfile of the auth controller (PUT /api/auth/me): the request body
\* is handed to update() as it is, so a role named in the body (brole) is
\* written when the store accepts it; every failure is answered with 500
AuthUpdateProfile(q) ==
  { Result(Sent(q, INTERNAL_SERVER_ERROR), profiles, identities) }
  \cup IF profiles[q.user.id] = NoRow THEN {}
       ELSE IF q.brole = "" THEN { Result(Sent(q, OK), profiles, identities) }
       ELSE IF RoleCheck(q.brole)
       THEN { Result(Sent(q, OK), [profiles EXCEPT ![q.user.id] = q.brole], identities) }
       ELSE {}

\* login: signInWithPassword for the user of the body's email (pid), then the
\* profile read.  A successful sign-in opens a session at the identity
\* service, and the one supabase client of the server keeps it as its
\* current session
Login(q) ==
  LET u == q.pid
      signedIn == [live |-> sessions.live \cup {u}, client |-> u]
  IN { Result(Sent(q, UNAUTHORIZED), profiles, identities),
       Result(Sent(q, INTERNAL_SERVER_ERROR), profiles, identities) }
     \cup IF u \in identities /\ q.password = "right"
          THEN { ResultS(Sent(q, IF o.kind \in {"ok", "empty"} THEN OK
                                 ELSE INTERNAL_SERVER_ERROR),
                         profiles, identities, signedIn)
                   : o \in ReadOutcomes(u) }
          ELSE {}

\* logout: supabase.auth.signOut() takes no token.  It ends the session the
\* client holds, if it holds one, and reports no error when it holds none
Logout(q) ==
  IF sessions.client = ""
  THEN { Result(Sent(q, OK), profiles, identities) }
  ELSE { ResultS(Sent(q, OK), profiles, identities,
                 [live |-> sessions.live \ {sessions.client}, client |-> ""]),
         Result(Sent(q, INTERNAL_SERVER_ERROR), profiles, identities) }

\* signup handing any role on to the identity service
SignupCheckedAnyRole(q) ==
  { LET q1 == [q EXCEPT !.lookups = q.lookups + 1, !.lres = o.kind]
    IN Result(CASE o.kind = "ok" -> Sent(q1, BAD_REQUEST)
                [] o.kind = "throw" -> Sent(q1, INTERNAL_SERVER_ERROR)
                [] OTHER -> [q1 EXCEPT !.pc = "signUp", !.signups = q.signups + 1],
              profiles, identities)
      : o \in ReadOutcomes(q.pid) }

\* signup up to its second await: the role named in the body (default
\* 'customer') must be customer or vendor, then the profile with the body's
\* email (the user pid) is looked up; only { data } of the lookup is read, so
\* a lookup that reports an error counts as "no such user"
SignupChecked(q) ==
  IF q.brole # "" /\ q.brole \notin {"customer", "vendor"}
  THEN { Result(Sent(q, BAD_REQUEST), profiles, identities) }
  ELSE { LET q1 == [q EXCEPT !.lookups = q.lookups + 1, !.lres = o.kind]
         IN Result(CASE o.kind = "ok" -> Sent(q1, BAD_REQUEST)
                     [] o.kind = "throw" -> Sent(q1, INTERNAL_SERVER_ERROR)
                     [] OTHER -> [q1 EXCEPT !.pc = "signUp", !.signups = q.signups + 1],
                   profiles, identities)
           : o \in ReadOutcomes(q.pid) }

\* handle_new_user, the trigger on auth.users: the first user becomes admin,
\* a requested vendor becomes vendor, everybody else customer
TriggerRole(meta, count) ==
  IF count = 1 THEN "admin"
  ELSE IF meta = "vendor" THEN "vendor"
  ELSE "customer"

\* supabase.auth.signUp resolved: a new identity is inserted and the trigger
\* inserts its profile row in the same transaction (which fails when a row
\* with that id is there already); for a registered email the identity
\* service answers with an error or with an obfuscated success, and creates
\* nothing; a failure may also be reported after the insert took place
SignUp(q) ==
  LET u == q.pid
      created == identities \cup {u}
      row == TriggerRole(q.brole, Cardinality(created))
  IN { Result(Sent(q, INTERNAL_SERVER_ERROR), profiles, identities) }
     \cup IF u \in identities
          THEN { Result(Sent(q, CREATED), profiles, identities) }
          ELSE IF profiles[u] # NoRow THEN {}
          ELSE { Result(Sent(q, CREATED), [profiles EXCEPT ![u] = row], created),
                 Result(Sent(q, INTERNAL_SERVER_ERROR), [profiles EXCEPT ![u] = row], created) }

\* the handler named h runs on request q
HandlerResults(q, h, b) ==
  CASE h = "getCurrentUser" -> GetUserById(q, q.user.id)
    [] h = "updateProfile" -> UpdateProfile(q)
    [] h = "deleteAccount" -> DeleteUserAccount(q, q.user.id)
    [] h = "getUsers" -> GetAllUsers(q)
    [] h = "getUser" -> GetUserById(q, q.pid)
    [] h = "deleteUser" -> DeleteUser(q)
    [] h = "updateRole" -> UpdateRole(q, b)
    [] h = "signup" -> SignupChecked(q)
    [] h = "login" -> Login(q)
    [] h = "logout" -> Logout(q)
    [] h = "auth.deleteAccount" -> AuthDeleteAccount(q)
    [] h = "auth.updateProfile" -> AuthUpdateProfile(q)
    [] OTHER -> { Result(Sent(q, OK), profiles, identities) }

\* ------------------------------------------------------------------------
\* Actions
\* ------------------------------------------------------------------------
Current(q) == q.stack[q.layer]

At(r, pc, kinds) ==
  /\ reqs[r].pc = pc
  /\ pc = "enter" => Current(reqs[r]).kind \in kinds

\* the request enters its router at the first layer that handles it
Start(q) ==
  LET n == NextLayer(q, 1)
  IN IF n = 0
     THEN [q EXCEPT !.res = Res(NOT_FOUND, "error", "Not Found"), !.pc = "done"]
     ELSE [q EXCEPT !.layer = n, !.pc = "enter"]

\* the requests sent to the user router: method, path (/, /me, /:id,
\* /:id/role), the id in the path and the role in the body
Routed(m, shape, pid, brole) == [method |-> m, shape |-> shape, pid |-> pid, brole |-> brole]

Targets ==
  {Routed("GET", "root", "", ""), Routed("PATCH", "root", "", ""),
   Routed("GET", "me", "me", ""), Routed("PATCH", "me", "me", ""),
   Routed("DELETE", "me", "me", ""), Routed("GET", "id", "u2", "")}
  \cup {Routed("DELETE", "id", u, "") : u \in Users}
  \cup {Routed("PATCH", "role", u, br) : u \in Users, br \in BodyRoles}

\* the credentials a request carries: Authorization header and jwt cookie
Credentials ==
  {[header |-> h, cookie |-> ""] : h \in Headers}
  \cup {[header |-> <<>>, cookie |-> "t1"]}

\* interceptors mounted directly in front of a handler
Mounts ==
  {<<AuthorizeLayer(rs), Endpoint>> : rs \in {{}, {"admin"}, {"vendor", "admin"}}}
  \cup {<<ProtectLayer, AuthorizeLayer(rs), Endpoint>> : rs \in {{}, {"admin"}, {"vendor", "admin"}}}
  \cup {<<IsOwnerLayer(u), Endpoint>> : u \in Users}
  \cup {<<ProtectLayer, IsOwnerLayer(u), Endpoint>> : u \in Users}

NewReq(stack, c, t) ==
  Start([IdleReq EXCEPT !.stack = stack, !.header = c.header, !.cookie = c.cookie,
                        !.method = t.method, !.shape = t.shape, !.pid = t.pid,
                        !.brole = t.brole])

\* a request arrives at the user router
Arrive(r) ==
  /\ reqs[r].pc \in {"idle", "done"}
  /\ arrivals < MaxArrivals
  /\ arrivals' = arrivals + 1
  /\ \E c \in Credentials, t \in Targets :
       reqs' = [reqs EXCEPT ![r] = NewReq(UserRouter, c, t)]
  /\ UNCHANGED <<profiles, identities, build, mig, sessions>>

\* a request arrives at a handler guarded by directly mounted interceptors
ArriveMounted(r) ==
  /\ reqs[r].pc \in {"idle", "done"}
  /\ arrivals < MaxArrivals
  /\ arrivals' = arrivals + 1
  /\ \E c \in Credentials, st \in Mounts :
       reqs' = [reqs EXCEPT ![r] = NewReq(st, c, Routed("GET", "root", "", ""))]
  /\ UNCHANGED <<profiles, identities, build, mig, sessions>>

\* concurrent traffic of two signed-in users on the user router
RaceTargets ==
  {Routed("GET", "root", "", ""), Routed("DELETE", "me", "me", "")}
  \cup {Routed("PATCH", "role", u, br) : u \in Users, br \in {"customer", "admin"}}

ArriveRace(r) ==
  /\ reqs[r].pc \in {"idle", "done"}
  /\ arrivals < MaxArrivals
  /\ arrivals' = arrivals + 1
  /\ \E tok \in DOMAIN TokenUser, t \in RaceTargets :
       reqs' = [reqs EXCEPT ![r] =
                  NewReq(UserRouter, [header |-> <<"Bearer", tok>>, cookie |-> ""], t)]
  /\ UNCHANGED <<profiles, identities, build, mig, sessions>>

\* a request arrives at the auth router: a signup for the email of user u, a
\* profile update whose body may name a role, or the deletion of the account
ArriveAuth(r) ==
  /\ reqs[r].pc \in {"idle", "done"}
  /\ arrivals < MaxArrivals
  /\ arrivals' = arrivals + 1
  /\ \/ \E u \in Users, br \in {"", "vendor", "admin"} :
          reqs' = [reqs EXCEPT ![r] =
                     NewReq(AuthRouter, [header |-> <<>>, cookie |-> ""],
                            Routed("POST", "signup", u, br))]
     \/ \E tok \in DOMAIN TokenUser, br \in {"", "vendor", "admin", "root"} :
          reqs' = [reqs EXCEPT ![r] =
                     NewReq(AuthRouter, [header |-> <<"Bearer", tok>>, cookie |-> ""],
                            Routed("PUT", "me", "me", br))]
     \/ \E tok \in DOMAIN TokenUser :
          reqs' = [reqs EXCEPT ![r] =
                     NewReq(AuthRouter, [header |-> <<"Bearer", tok>>, cookie |-> ""],
                            Routed("DELETE", "me", "me", ""))]
  /\ UNCHANGED <<profiles, identities, build, mig, sessions>>

\* a request that writes profiles arrives at the user router
WriterTargets ==
  {Routed("PATCH", "me", "me", "")}
  \cup {Routed("PATCH", "role", u, br) : u \in Users, br \in BodyRoles}

ArriveWriter(r) ==
  /\ reqs[r].pc \in {"idle", "done"}
  /\ arrivals < MaxArrivals
  /\ arrivals' = arrivals + 1
  /\ \E tok \in DOMAIN TokenUser, t \in WriterTargets :
       reqs' = [reqs EXCEPT ![r] =
                  NewReq(UserRouter, [header |-> <<"Bearer", tok>>, cookie |-> ""], t)]
  /\ UNCHANGED <<profiles, identities, build, mig, sessions>>

\* a login or a logout request arrives at the auth router
ArriveSession(r) ==
  /\ reqs[r].pc \in {"idle", "done"}
  /\ arrivals < MaxArrivals
  /\ arrivals' = arrivals + 1
  /\ \/ \E u \in Users, pw \in {"right", "wrong"} :
          reqs' = [reqs EXCEPT ![r] =
                     [NewReq(AuthRouter, [header |-> <<>>, cookie |-> ""],
                             Routed("POST", "login", u, ""))
                        EXCEPT !.password = pw]]
     \/ \E tok \in DOMAIN TokenUser :
          reqs' = [reqs EXCEPT ![r] =
                     NewReq(AuthRouter, [header |-> <<"Bearer", tok>>, cookie |-> ""],
                            Routed("POST", "logout", "", ""))]
  /\ UNCHANGED <<profiles, identities, build, mig, sessions>>

\* the signUp call of a signup request resolves
SignupCreate(r) ==
  /\ At(r, "signUp", {})
  /\ \E res \in SignUp(reqs[r]) :
       /\ reqs' = [reqs EXCEPT ![r] = res.q]
       /\ profiles' = res.profiles
       /\ identities' = res.identities
       /\ sessions' = res.sessions
  /\ UNCHANGED <<build, arrivals, mig>>

ProtectStart(r) ==
  /\ At(r, "enter", {"protect"})
  /\ reqs[r].vcalls < MaxCalls
  /\ reqs' = [reqs EXCEPT ![r] = ProtectEnter(reqs[r], build)]
  /\ UNCHANGED <<profiles, identities, build, arrivals, mig, sessions>>

ProtectVerify(r) ==
  /\ At(r, "verify", {})
  /\ reqs[r].pcalls < MaxCalls
  /\ \E o \in VerifyOutcomes(BearerToken(reqs[r].header)) :
       reqs' = [reqs EXCEPT ![r] = ProtectVerified(reqs[r], o, build)]
  /\ UNCHANGED <<profiles, identities, build, arrivals, mig, sessions>>

\* protect creating a customer row when the profile read finds none
ProtectReadUpsert(r) ==
  /\ At(r, "profile", {})
  /\ \E o \in ReadOutcomes(reqs[r].ident) :
       /\ reqs' = [reqs EXCEPT ![r] = ProtectProfile(reqs[r], o, build)]
       /\ profiles' = IF o.kind = "empty"
                      THEN [profiles EXCEPT ![reqs[r].ident] = "customer"]
                      ELSE profiles
  /\ UNCHANGED <<identities, build, arrivals, mig, sessions>>

ProtectRead(r) ==
  /\ At(r, "profile", {})
  /\ \E o \in ReadOutcomes(reqs[r].ident) :
       reqs' = [reqs EXCEPT ![r] = ProtectProfile(reqs[r], o, build)]
  /\ UNCHANGED <<profiles, identities, build, arrivals, mig, sessions>>

AuthorizeStart(r) ==
  /\ At(r, "enter", {"authorize"})
  /\ reqs[r].rcalls < MaxCalls
  /\ reqs' = [reqs EXCEPT ![r] = AuthorizeEnter(reqs[r])]
  /\ UNCHANGED <<profiles, identities, build, arrivals, mig, sessions>>

AuthorizeRead(r) ==
  /\ At(r, "role", {})
  /\ \E o \in ReadOutcomes(reqs[r].user.id) :
       reqs' = [reqs EXCEPT ![r] =
                  AuthorizeRole(reqs[r], Current(reqs[r]).roles, o, build)]
  /\ UNCHANGED <<profiles, identities, build, arrivals, mig, sessions>>

OwnerCheck(r) ==
  /\ At(r, "enter", {"isOwner"})
  /\ reqs' = [reqs EXCEPT ![r] = IsOwner(reqs[r], Current(reqs[r]).owner, build)]
  /\ UNCHANGED <<profiles, identities, build, arrivals, mig, sessions>>

Handle(r) ==
  /\ At(r, "enter", {"route", "endpoint"})
  /\ LET q == reqs[r]
         h == IF Current(q).kind = "route" THEN HandlerFor(Current(q), q.method)
              ELSE "resource"
     IN \E res \in HandlerResults([q EXCEPT !.handler = h], h, build) :
          /\ reqs' = [reqs EXCEPT ![r] = res.q]
          /\ profiles' = res.profiles
          /\ identities' = res.identities
          /\ sessions' = res.sessions
  /\ UNCHANGED <<build, arrivals, mig>>

Init ==
  /\ reqs = [r \in Slots |-> IdleReq]
  /\ profiles \in [Users -> UserRole \cup {NoRow}]
  /\ identities = Users
  /\ build \in Builds
  /\ arrivals = 0
  /\ mig = IdleMig
  /\ sessions = NoSessions

\* one request at a time, every kind of request
Step(r) ==
  \/ Arrive(r)
  \/ ArriveMounted(r)
  \/ ProtectStart(r)
  \/ ProtectVerify(r)
  \/ ProtectRead(r)
  \/ AuthorizeStart(r)
  \/ AuthorizeRead(r)
  \/ OwnerCheck(r)
  \/ Handle(r)

Next == Step(1)

Spec == Init /\ [][Next]_vars

\* two requests in flight, interleaved at their suspension points
RaceStep(r) ==
  \/ ArriveRace(r)
  \/ ProtectStart(r)
  \/ ProtectVerify(r)
  \/ ProtectRead(r)
  \/ AuthorizeStart(r)
  \/ AuthorizeRead(r)
  \/ Handle(r)

NextRace == \E r \in Slots : RaceStep(r)

\* both users hold a profile row when the concurrent traffic starts
InitRace ==
  /\ reqs = [r \in Slots |-> IdleReq]
  /\ profiles \in [Users -> {"customer", "admin"}]
  /\ identities = Users
  /\ build \in Builds
  /\ arrivals = 0
  /\ mig = IdleMig
  /\ sessions = NoSessions

SpecRace == InitRace /\ [][NextRace]_vars

\* ------------------------------------------------------------------------
\* Properties
\* ------------------------------------------------------------------------
\* nobody has signed up yet
InitStore ==
  /\ reqs = [r \in Slots |-> IdleReq]
  /\ profiles = [u \in Users |-> NoRow]
  /\ identities = {}
  /\ build \in Builds
  /\ arrivals = 0
  /\ mig = IdleMig
  /\ sessions = NoSessions

\* one request at a time: signups, profile updates and role updates
StoreStep(r) ==
  \/ ArriveAuth(r)
  \/ ArriveWriter(r)
  \/ ProtectStart(r)
  \/ ProtectVerify(r)
  \/ ProtectRead(r)
  \/ AuthorizeStart(r)
  \/ AuthorizeRead(r)
  \/ Handle(r)
  \/ SignupCreate(r)

NextStore == StoreStep(1)

SpecStore == InitStore /\ [][NextStore]_vars

\* ------------------------------------------------------------------------
\* The migrate command (db-migrate): create <name>, up
\* ------------------------------------------------------------------------
\* migration file names: a 14-digit timestamp and a name, so the order of the
\* names as strings is the order of the numbers standing for them here
FileNames == 1..MaxFiles

RECURSIVE Sorted(_)
\* files.sort(): the names in ascending order
Sorted(S) ==
  IF S = {} THEN <<>>
  ELSE LET m == CHOOSE x \in S : \A y \in S : x <= y
       IN <<m>> \o Sorted(S \ {m})

\* the part of the loop `for (const file of files)` that does nothing: the
\* files found in appliedSet are passed over
Pending(todo, applied) == SelectSeq(todo, LAMBDA f : f \notin applied)

\* an rpc or table call of the supabase client resolves with { error: null },
\* resolves with { error }, or throws
CallOutcomes == {"ok", "error", "throw"}

\* the TypeScript copy tests the error of each call and gives up; the
\* JavaScript copy never looks at it
Ignored(o, b) == o = "error" /\ b = "js"

\* process.exit(1)
Exit(m) == [m EXCEPT !.pc = "failed"]

\* the loop moves to the next pending file, or the run ends
Advance(m, todo) ==
  IF todo = <<>> THEN [m EXCEPT !.pc = "done", !.todo = <<>>]
  ELSE [m EXCEPT !.pc = "exec", !.todo = todo]

\* create <name>: a new migration file is written
MigCreate ==
  /\ mig.pc \in {"idle", "done", "failed"}
  /\ \E f \in FileNames \ mig.files :
       mig' = [mig EXCEPT !.files = mig.files \cup {f}]
  /\ UNCHANGED <<reqs, profiles, identities, build, arrivals, sessions>>

\* up starts: the directory is listed; with no file the run is over, else
\* ensureMigrationsTable is called
UpStart ==
  /\ mig.pc \in {"idle", "done", "failed"}
  /\ mig.runs < MaxRuns
  /\ mig' = [mig EXCEPT !.runs = mig.runs + 1, !.log = <<>>, !.eres = "",
                        !.before = mig.table, !.appliedSet = {},
                        !.todo = Sorted(mig.files),
                        !.pc = IF mig.files = {} THEN "done" ELSE "table"]
  /\ UNCHANGED <<reqs, profiles, identities, build, arrivals, sessions>>

\* CREATE TABLE IF NOT EXISTS _migrations resolved; then the applied names
\* are selected
UpEnsureTable ==
  /\ mig.pc = "table"
  /\ \E o \in CallOutcomes :
       mig' = IF o = "ok" \/ Ignored(o, build)
              THEN [mig EXCEPT !.pc = "select"]
              ELSE Exit(mig)
  /\ UNCHANGED <<reqs, profiles, identities, build, arrivals, sessions>>

\* the select of the applied names resolved: appliedSet holds the names it
\* returned, no name when data is null
UpSelect ==
  /\ mig.pc = "select"
  /\ \E o \in CallOutcomes :
       mig' = CASE o = "ok" ->
                     Advance([mig EXCEPT !.appliedSet = mig.table],
                             Pending(mig.todo, mig.table))
                [] Ignored(o, build) -> Advance(mig, Pending(mig.todo, {}))
                [] OTHER -> Exit(mig)
  /\ UNCHANGED <<reqs, profiles, identities, build, arrivals, sessions>>

\* exec_sql of the next pending file resolved
UpExec ==
  /\ mig.pc = "exec"
  /\ \E o \in CallOutcomes :
       LET m == [mig EXCEPT !.log = Append(mig.log, Head(mig.todo)), !.eres = o]
       IN mig' = IF o = "ok" \/ Ignored(o, build)
                 THEN [m EXCEPT !.pc = "record"]
                 ELSE Exit(m)
  /\ UNCHANGED <<reqs, profiles, identities, build, arrivals, sessions>>

\* the insert into _migrations resolved; name is UNIQUE, so the insert of a
\* recorded name reports an error
UpRecord ==
  /\ mig.pc = "record"
  /\ LET f == Head(mig.todo)
         rest == Pending(Tail(mig.todo), mig.appliedSet)
     IN \E o \in CallOutcomes :
          /\ o = "ok" => f \notin mig.table
          /\ mig' = CASE o = "ok" ->
                          Advance([mig EXCEPT !.table = mig.table \cup {f}], rest)
                     [] Ignored(o, build) -> Advance(mig, rest)
                     [] OTHER -> Exit(mig)
  /\ UNCHANGED <<reqs, profiles, identities, build, arrivals, sessions>>

NextMigrate ==
  \/ MigCreate
  \/ UpStart
  \/ UpEnsureTable
  \/ UpSelect
  \/ UpExec
  \/ UpRecord

SpecMigrate == InitStore /\ [][NextMigrate]_vars

\* logins and logouts of two users, interleaved at their suspension points
SessionStep(r) ==
  \/ ArriveSession(r)
  \/ ProtectStart(r)
  \/ ProtectVerify(r)
  \/ ProtectRead(r)
  \/ Handle(r)

NextSession == \E r \in Slots : SessionStep(r)

SpecSession == InitRace /\ [][NextSession]_vars

\* a signup request arrives at the auth router
ArriveSignup(r) ==
  /\ reqs[r].pc \in {"idle", "done"}
  /\ arrivals < MaxArrivals
  /\ arrivals' = arrivals + 1
  /\ \E u \in Users, br \in {"", "vendor"} :
       reqs' = [reqs EXCEPT ![r] =
                  NewReq(AuthRouter, [header |-> <<>>, cookie |-> ""],
                         Routed("POST", "signup", u, br))]
  /\ UNCHANGED <<profiles, identities, build, mig, sessions>>

\* two signup requests in flight, interleaved at their suspension points
SignupStep(r) ==
  \/ ArriveSignup(r)
  \/ Handle(r)
  \/ SignupCreate(r)

NextSignup == \E r \in Slots : SignupStep(r)

SpecSignup == InitStore /\ [][NextSignup]_vars

\* a handler behind protect alone
ProtectedResource == <<ProtectLayer, Endpoint>>

\* the same protected resource requested repeatedly with a valid token; the
\* handler behind it writes nothing, so the backing data stays as it is
ArriveTwice(r) ==
  /\ reqs[r].pc \in {"idle", "done"}
  /\ arrivals < MaxArrivals
  /\ arrivals' = arrivals + 1
  /\ \E tok \in DOMAIN TokenUser, ck \in Cookies :
       reqs' = [reqs EXCEPT ![r] =
                  NewReq(ProtectedResource, [header |-> <<"Bearer", tok>>, cookie |-> ck],
                         Routed("GET", "root", "", ""))]
  /\ UNCHANGED <<profiles, identities, build, mig, sessions>>

TwiceStep(r) ==
  \/ ArriveTwice(r)
  \/ ProtectStart(r)
  \/ ProtectVerify(r)
  \/ ProtectRead(r)
  \/ Handle(r)

NextTwice == \E r \in Slots : TwiceStep(r)

SpecTwice == Init /\ [][NextTwice]_vars

\* index of the layer of the given kind in the request's stack, or 0
LayerIndex(q, kind) ==
  IF \E i \in 1..Len(q.stack) : q.stack[i].kind = kind
  THEN CHOOSE i \in 1..Len(q.stack) : q.stack[i].kind = kind
  ELSE 0

\* the interceptor at layer i ended the request with this status
RejectedBy(q, i, code) ==
  q.pc = "done" /\ i # 0 /\ q.layer = i /\ q.res.code = code

\* the interceptor at layer i has run and called next()
Passed(q, i) ==
  /\ i # 0
  /\ \/ q.layer > i
     \/ q.layer = 0 /\ q.pc = "done" /\ q.nexts > 0

\* the interceptor at layer i has started on the request
Entered(q, i) ==
  /\ i # 0
  /\ \/ Passed(q, i)
     \/ q.layer = i /\ q.pc # "enter"

\* a bearer credential: an Authorization header 'Bearer <token>'
CarriesBearer(q) == Len(q.header) = 2 /\ q.header[1] = "Bearer"

RemoteCalls(q) == q.vcalls + q.pcalls + q.rcalls

\* C1: a request with no bearer credential and no cookie is rejected by
\* protect with 401 and no remote call (verify, profile read, role read) is
\* ever issued for it.
C1_NoCredentialNoRemoteCall ==
  \A r \in Slots :
    LET q == reqs[r]
    IN (q.pc # "idle" /\ LayerIndex(q, "protect") = 1
          /\ ~CarriesBearer(q) /\ q.cookie = "")
       => /\ RemoteCalls(q) = 0
          /\ \/ q.pc = "enter" /\ q.layer = 1
             \/ RejectedBy(q, 1, UNAUTHORIZED) /\ q.sends = 1 /\ q.nexts = 0

C1_Witness ==
  \E r \in Slots :
    LET q == reqs[r]
    IN /\ LayerIndex(q, "protect") = 1
       /\ q.header = <<"Basic", "t1">> /\ q.cookie = ""
       /\ RejectedBy(q, 1, UNAUTHORIZED)
       /\ RemoteCalls(q) = 0

\* C2: in the user router an admin-only handler runs only on a request that
\* protect admitted and that authorize('admin') admitted on a fetched role of
\* admin.
C2_AdminHandlersGuarded ==
  \A r \in Slots :
    LET q == reqs[r]
    IN q.handler \in AdminHandlers
       => /\ Passed(q, LayerIndex(q, "protect"))
          /\ q.protectOk
          /\ q.authzOk
          /\ q.ares = "ok" /\ q.fetched = "admin"
          /\ LayerIndex(q, "authorize") < q.layer

C2_Witness ==
  \E r \in Slots :
    /\ reqs[r].handler = "updateRole"
    /\ reqs[r].fetched = "admin"
    /\ reqs[r].res.code = OK

\* C3: authorize decides on the role its own profile-store read returned,
\* not on the role protect cached: when the two differ the fetched one
\* governs.
C3_FreshRoleGoverns ==
  \A r \in Slots :
    LET q == reqs[r]
        a == LayerIndex(q, "authorize")
    IN (q.pc # "idle" /\ a # 0 /\ q.ares = "ok")
       => IF q.stack[a].roles = {} \/ q.fetched \in q.stack[a].roles
          THEN Passed(q, a) /\ q.authzOk
          ELSE RejectedBy(q, a, FORBIDDEN) /\ ~q.authzOk

C3_Witness ==
  \E r \in Slots :
    LET q == reqs[r]
    IN /\ q.ares = "ok"
       /\ q.cached = "admin" /\ q.fetched = "customer"
       /\ RejectedBy(q, LayerIndex(q, "authorize"), FORBIDDEN)

\* C4: authorize(roles) answers 403 exactly when roles is non-empty and the
\* fetched role is not in it; with no declared role it admits whatever the
\* fetched role, and the handler sees that role in the context.
C4_ForbiddenIffRoleNotAllowed ==
  \A r \in Slots :
    LET q == reqs[r]
        a == LayerIndex(q, "authorize")
    IN (q.pc # "idle" /\ a # 0)
       => /\ RejectedBy(q, a, FORBIDDEN)
               <=> (q.ares = "ok" /\ q.stack[a].roles # {}
                      /\ q.fetched \notin q.stack[a].roles)
          /\ (q.ares = "ok" /\ q.stack[a].roles = {})
               => Passed(q, a) /\ q.authzOk /\ q.user.role = q.fetched
          /\ (q.handler # "" /\ Passed(q, a)) => q.user.role = q.fetched

C4_Witness ==
  \E r \in Slots :
    LET q == reqs[r]
        a == LayerIndex(q, "authorize")
    IN /\ a # 0 /\ q.stack[a].roles = {}
       /\ q.header = <<"Bearer", "t1">>
       /\ q.fetched = "customer" /\ q.user.role = "customer"
       /\ q.handler = "resource" /\ q.res.code = OK

\* scenario A of C4: a customer on a route that requires admin gets 403
C4_ScenarioA ==
  \E r \in Slots :
    LET q == reqs[r]
        a == LayerIndex(q, "authorize")
    IN /\ a # 0 /\ q.stack[a].roles = {"admin"}
       /\ q.fetched = "customer"
       /\ RejectedBy(q, a, FORBIDDEN)

\* C5: req.user and req.token are attached exactly when protect admitted
\* the request; on every rejection path of protect, and while protect is
\* still running, neither is set.
C5_ContextIffAuthenticated ==
  \A r \in Slots :
    LET q == reqs[r]
        p == LayerIndex(q, "protect")
    IN IF q.pc # "idle" /\ Passed(q, p)
       THEN /\ q.user # NoUser /\ q.user.id = q.ident
            /\ q.token # "" /\ q.token = q.header[2]
       ELSE q.user = NoUser /\ q.token = ""

C5_Witness ==
  \E r \in Slots :
    LET q == reqs[r]
    IN /\ RejectedBy(q, LayerIndex(q, "protect"), NOT_FOUND)
       /\ q.vres = "ok" /\ q.pres = "empty"
       /\ q.user = NoUser /\ q.token = ""

\* the status protect gives a request that carries no credential
NoCredentialCode ==
  ProtectEnter([IdleReq EXCEPT !.header = <<>>], build).res.code

\* C6: a token the identity collaborator reports invalid or expired (error
\* result or no user) is rejected by protect with the status of the
\* no-credential rejection.
C6_InvalidTokenSameStatus ==
  \A r \in Slots :
    LET q == reqs[r]
    IN q.vres \in {"error", "empty"}
       => /\ RejectedBy(q, LayerIndex(q, "protect"), NoCredentialCode)
          /\ NoCredentialCode = UNAUTHORIZED

C6_Witness ==
  \E r \in Slots :
    LET q == reqs[r]
    IN /\ q.header = <<"Bearer", "bad">>
       /\ q.vres = "error"
       /\ RejectedBy(q, LayerIndex(q, "protect"), UNAUTHORIZED)

\* C7: when the token verifies and the profile read reports no row, protect
\* rejects with 404, a status other than the 401 of a missing or invalid
\* credential, and no handler runs.
C7_ProfileNotFound ==
  \A r \in Slots :
    LET q == reqs[r]
    IN (q.vres = "ok" /\ q.pres \in {"error", "empty"})
       => /\ RejectedBy(q, LayerIndex(q, "protect"), NOT_FOUND)
          /\ NOT_FOUND # NoCredentialCode
          /\ q.handler = "" /\ q.nexts = 0

C7_Witness ==
  \E r \in Slots :
    LET q == reqs[r]
    IN /\ q.vres = "ok" /\ q.pres = "empty"
       /\ profiles[q.ident] = NoRow
       /\ RejectedBy(q, LayerIndex(q, "protect"), NOT_FOUND)

\* C8: isOwner admits when the context id equals the resource owner id,
\* admits when the context role is admin, and rejects with 403 in every
\* other case.
C8_OwnerOrAdminElseForbidden ==
  \A r \in Slots :
    LET q == reqs[r]
        i == LayerIndex(q, "isOwner")
    IN (q.pc # "idle" /\ Entered(q, i))
       => IF q.user.id = q.stack[i].owner \/ q.user.role = "admin"
          THEN Passed(q, i)
          ELSE RejectedBy(q, i, FORBIDDEN)

\* isOwner on a request that carries a context: the claim of C8 holds
C8_WithContext ==
  \A r \in Slots :
    LET q == reqs[r]
        i == LayerIndex(q, "isOwner")
    IN (q.pc # "idle" /\ Entered(q, i) /\ q.user # NoUser)
       => IF q.user.id = q.stack[i].owner \/ q.user.role = "admin"
          THEN Passed(q, i)
          ELSE RejectedBy(q, i, FORBIDDEN)

\* C9: authorize on a request without req.user rejects at once with a
\* status other than 403, issues no profile-store read, and no handler
\* runs.
C9_NoIdentityRejected ==
  \A r \in Slots :
    LET q == reqs[r]
        a == LayerIndex(q, "authorize")
    IN (q.pc # "idle" /\ Entered(q, a) /\ q.user = NoUser)
       => /\ RejectedBy(q, a, UNAUTHORIZED)
          /\ q.res.code # FORBIDDEN
          /\ q.rcalls = 0 /\ q.ares = ""
          /\ q.handler = "" /\ q.nexts = 0

C9_Witness ==
  \E r \in Slots :
    LET q == reqs[r]
    IN /\ LayerIndex(q, "authorize") = 1
       /\ q.user = NoUser
       /\ RejectedBy(q, 1, UNAUTHORIZED)
       /\ q.rcalls = 0

\* C10 as stated: every failure of authorize's role re-fetch (error result,
\* no row, thrown failure) ends in a 404 rejection with no handler run.
C10_EveryRefetchFailureNotFound ==
  \A r \in Slots :
    LET q == reqs[r]
    IN q.ares \in {"error", "empty", "throw"}
       => /\ RejectedBy(q, LayerIndex(q, "authorize"), NOT_FOUND)
          /\ q.handler = ""

\* C10 amended: an error result or a missing row ends in 404, a thrown
\* failure of the store call ends in 500; in no case does a handler run.
C10_RefetchFailureRejected ==
  \A r \in Slots :
    LET q == reqs[r]
        a == LayerIndex(q, "authorize")
    IN /\ q.ares \in {"error", "empty"} => RejectedBy(q, a, NOT_FOUND)
       /\ q.ares = "throw" => RejectedBy(q, a, INTERNAL_SERVER_ERROR)
       /\ q.ares \in {"error", "empty", "throw"}
            => q.handler = "" /\ ~q.authzOk /\ ~Passed(q, a)

C10_Witness ==
  \E r \in Slots :
    LET q == reqs[r]
    IN /\ q.ares = "throw"
       /\ RejectedBy(q, LayerIndex(q, "authorize"), INTERNAL_SERVER_ERROR)
       /\ q.handler = ""

\* the request has reached the layer at index i, or gone past it
Reached(q, i) ==
  /\ i # 0
  /\ \/ q.layer >= i
     \/ q.layer = 0 /\ q.pc = "done" /\ q.nexts > 0

\* C11: when the verify call or the profile read fails with a remote error
\* (error result or thrown exception), protect ends the request with one
\* rejection response, does not call next(), and no handler runs.
C11_FailsClosed ==
  \A r \in Slots :
    LET q == reqs[r]
        p == LayerIndex(q, "protect")
    IN (q.vres \in {"error", "throw"} \/ q.pres \in {"error", "throw"})
       => /\ \/ RejectedBy(q, p, UNAUTHORIZED)
             \/ RejectedBy(q, p, NOT_FOUND)
          /\ q.sends = 1 /\ q.res.message # ""
          /\ ~Passed(q, p) /\ q.nexts = 0
          /\ q.handler = "" /\ q.user = NoUser

C11_Witness ==
  \E r \in Slots :
    LET q == reqs[r]
    IN /\ q.header = <<"Bearer", "t1">>
       /\ q.vres = "throw"
       /\ RejectedBy(q, LayerIndex(q, "protect"), UNAUTHORIZED)
       /\ q.nexts = 0

\* C12: in the user router authorize is reached only by a request that
\* protect has admitted with a profile that carries a role.
C12_AuthorizeAfterProtect ==
  \A r \in Slots :
    LET q == reqs[r]
        a == LayerIndex(q, "authorize")
        p == LayerIndex(q, "protect")
    IN (q.pc # "idle" /\ LayerIndex(q, "route") # 0 /\ Reached(q, a))
       => /\ p # 0 /\ p < a
          /\ q.protectOk /\ q.vres = "ok" /\ q.pres = "ok"
          /\ q.user # NoUser /\ q.cached # "" /\ q.cached # NoRow

C12_Witness ==
  \E r \in Slots :
    LET q == reqs[r]
        a == LayerIndex(q, "authorize")
    IN /\ LayerIndex(q, "route") # 0
       /\ q.layer = a /\ q.pc = "role"
       /\ q.protectOk /\ q.cached = "customer"

\* the interceptors among the layers of a stack
Interceptors == {"protect", "authorize", "isOwner"}

InterceptorsBefore(q, i) ==
  Cardinality({j \in 1..(i - 1) : q.stack[j].kind \in Interceptors})

\* C13: every interceptor invocation either calls next() once and sends no
\* response, or sends one rejection response and never calls next().
C13_NextXorResponse ==
  \A r \in Slots :
    LET q == reqs[r]
    IN (q.pc # "idle" /\ q.layer # 0)
       => IF q.stack[q.layer].kind \in Interceptors
          THEN /\ q.nexts = InterceptorsBefore(q, q.layer)
               /\ q.pc = "done" => q.sends = 1
               /\ q.pc # "done" => q.sends = 0
          ELSE /\ q.nexts = InterceptorsBefore(q, q.layer)
               /\ q.sends <= 1

\* the whole response protect gives a request that carries no credential
NoCredentialRes ==
  ProtectEnter([IdleReq EXCEPT !.header = <<>>], build).res

\* C16: protect answers an invalid or expired token with the same complete
\* response (status and body, message included) as a missing credential.
C16_SameResponse ==
  \A r \in Slots :
    LET q == reqs[r]
    IN (q.vres \in {"error", "empty"} /\ q.pc = "done")
       => q.res = NoCredentialRes

\* C17: every rejection response of protect, authorize and isOwner carries
\* a status field and a message field.
C17_StatusAndMessage ==
  \A r \in Slots :
    LET q == reqs[r]
    IN (q.pc = "done" /\ q.layer # 0 /\ q.stack[q.layer].kind \in Interceptors)
       => q.res.status # "" /\ q.res.message # ""

\* C14: two requests in flight with valid tokens never share context: in
\* every step of every interleaving a request's context holds the profile and
\* the token of the identity its own token names, the role it holds and the
\* admit/reject decision taken on it are those of its own row in the store at
\* the moment of the read, and a step of one request leaves the other
\* request untouched.
C14_OwnContextOnly ==
  [][\A r \in Slots :
       LET p == reqs[r]
           q == reqs'[r]
           tok == BearerToken(q.header)
           own == TokenUser[tok]
       IN q.pc # "idle"
          => /\ q.user # NoUser => q.user.id = own /\ q.token = tok
             /\ q.user = NoUser => q.token = ""
             /\ (p.pc = "profile" /\ q.pres = "ok")
                  => /\ q.protectOk /\ Passed(q, LayerIndex(q, "protect"))
                     /\ q.user = [id |-> own, role |-> profiles[own]]
             /\ (p.pc = "role" /\ q.ares = "ok")
                  => /\ q.user = [id |-> own, role |-> profiles[own]]
                     /\ q.authzOk <=> profiles[own] = "admin"
                     /\ IF profiles[own] = "admin"
                        THEN Passed(q, LayerIndex(q, "authorize"))
                        ELSE RejectedBy(q, LayerIndex(q, "authorize"), FORBIDDEN)
             /\ q # p => \A s \in Slots \ {r} : reqs'[s] = reqs[s]]_vars

C14_Witness ==
  /\ reqs[1].user # NoUser /\ reqs[2].user # NoUser
  /\ reqs[1].header # reqs[2].header
  /\ reqs[1].user.id = "u1" /\ reqs[2].user.id = "u2"
  /\ reqs[1].pc = "role" /\ reqs[2].pc = "role"

\* the admin-only handler of request r starts in this step
AdminHandlerStarts(r) ==
  /\ reqs[r].pc = "enter"
  /\ reqs[r].handler = ""
  /\ reqs'[r].handler \in AdminHandlers

\* C20 (as stated): under every interleaving of a role change with a gated
\* request, an admin-only handler starts only while the stored role of the
\* requesting user is admin.
C20_AdminWhenHandlerRuns ==
  [][\A r \in Slots :
       AdminHandlerStarts(r) => profiles[reqs[r].user.id] = "admin"]_vars

\* C20 (amended): an admin-only handler starts only on a request that
\* authorize admitted, and authorize admits only on a role of admin read from
\* the store in the admitting step itself; the stored role may change between
\* that read and the handler.
C20_AdminWhenRechecked ==
  [][\A r \in Slots :
       /\ AdminHandlerStarts(r)
            => reqs[r].authzOk /\ reqs[r].user.role = "admin"
       /\ (~reqs[r].authzOk /\ reqs'[r].authzOk)
            => /\ reqs[r].pc = "role"
               /\ profiles[reqs[r].user.id] = "admin"
               /\ profiles' = profiles]_vars

\* an administrator was demoted by the other request after authorize had
\* admitted its own request, and the admin-only handler ran all the same
C20_Witness ==
  \E r, s \in Slots :
    /\ r # s
    /\ reqs[r].handler = "getUsers" /\ reqs[r].res.code = OK
    /\ reqs[s].handler = "updateRole" /\ reqs[s].res.code = OK
    /\ reqs[s].pid = reqs[r].user.id /\ reqs[s].brole = "customer"
    /\ profiles[reqs[r].user.id] = "customer"

\* protect has finished on the request
ProtectFinished(q) ==
  LET p == LayerIndex(q, "protect")
  IN q.pc # "idle" /\ (Passed(q, p) \/ (q.pc = "done" /\ q.layer = p))

\* none of protect's remote calls failed on the request: the token was
\* verified, and the profile read answered with the row or with its absence
NoFault(q) ==
  /\ q.vres = "ok"
  /\ q.pres \in {"ok", "error", "empty"}
  /\ q.pres # "ok" => profiles[q.ident] = NoRow

\* C15: protect is idempotent: two runs of protect with the same valid token
\* over unchanged backing data, none of whose remote calls failed, end with
\* the same context (same profile, same token) and the same admit outcome, and
\* a rejection is the same response both times.
C15_ProtectIdempotent ==
  \A r, s \in Slots :
    LET q1 == reqs[r]
        q2 == reqs[s]
    IN (/\ ProtectFinished(q1) /\ ProtectFinished(q2)
        /\ q1.stack = ProtectedResource /\ q2.stack = ProtectedResource
        /\ q1.header = q2.header
        /\ NoFault(q1) /\ NoFault(q2))
       => /\ q1.user = q2.user
          /\ q1.token = q2.token
          /\ q1.protectOk = q2.protectOk
          /\ q1.protectOk <=> profiles[TokenUser[BearerToken(q1.header)]] # NoRow
          /\ ~q1.protectOk => q1.res = q2.res /\ q1.res.code = NOT_FOUND

C15_Witness ==
  /\ reqs[1].header = <<"Bearer", "t1">> /\ reqs[2].header = <<"Bearer", "t1">>
  /\ reqs[1].stack = ProtectedResource /\ reqs[2].stack = ProtectedResource
  /\ reqs[1].protectOk /\ reqs[2].protectOk
  /\ reqs[1].pc = "done" /\ reqs[2].pc = "done"
  /\ reqs[1].user = [id |-> "u1", role |-> "vendor"]
  /\ reqs[1].user = reqs[2].user

\* the handler updateRole of request r runs in this step
UpdateRoleRuns(r) ==
  /\ reqs[r].pc = "enter"
  /\ reqs[r].handler = ""
  /\ reqs'[r].handler = "updateRole"

\* C18: whatever signups, profile updates and role updates have run, every
\* stored profile holds one of the roles customer, vendor and admin, and an
\* updateRole request that names any other role leaves the store as it was.
C18_RolesStayInClosedSet ==
  [][/\ \A u \in Users : profiles'[u] \in UserRole \cup {NoRow}
     /\ \A r \in Slots :
          (UpdateRoleRuns(r) /\ reqs[r].brole \notin UserRole)
            => profiles' = profiles /\ reqs'[r].res.code # OK]_vars

\* an admitted updateRole request named the role root and the target's row
\* kept its role
C18_Witness ==
  \E r \in Slots :
    /\ reqs[r].handler = "updateRole" /\ reqs[r].authzOk
    /\ reqs[r].brole = "root"
    /\ reqs[r].pc = "done" /\ reqs[r].res.code = INTERNAL_SERVER_ERROR
    /\ profiles[reqs[r].pid] = "admin"

\* exec_sql is called for a migration file in this step
Executes(f) ==
  /\ Len(mig'.log) = Len(mig.log) + 1
  /\ mig'.log[Len(mig'.log)] = f

\* C19: over any number of runs of migrate up, a file is executed only while
\* its name is not recorded in _migrations, the files of one run are executed
\* in ascending order of their names, and a run that ends without failure has
\* executed every file that was pending when it started.
C19_PendingInOrderOnce ==
  [][/\ \A f \in FileNames :
          Executes(f)
            => /\ f \notin mig.table
               /\ \A i \in 1..Len(mig.log) : mig.log[i] < f
     /\ (mig.pc # "done" /\ mig'.pc = "done")
          => \A f \in mig.files \ mig.before :
               \E i \in 1..Len(mig'.log) : mig'.log[i] = f]_vars

\* C21: when the role re-fetch of authorize succeeds, req.user.role becomes
\* the fetched role, whatever protect had cached, and the id and the token of
\* the context stay as they were; a re-fetch that fails changes nothing in the
\* context; an admitted admin-only handler finds the fetched role in
\* req.user.role.
C21_FetchedRoleOverwritesCached ==
  [][\A r \in Slots :
       LET p == reqs[r]
           q == reqs'[r]
       IN /\ (p.pc = "role" /\ q.ares = "ok")
               => /\ q.fetched = profiles[p.user.id]
                  /\ q.user = [id |-> p.user.id, role |-> q.fetched]
                  /\ q.token = p.token
                  /\ q.cached = p.cached
          /\ (p.pc = "role" /\ q.ares \in {"error", "empty", "throw"})
               => q.user = p.user /\ q.token = p.token
          /\ (q.handler \in AdminHandlers /\ q.authzOk)
               => q.user.role = q.fetched]_vars

C21_Witness ==
  \E r \in Slots :
    /\ reqs[r].cached = "customer" /\ reqs[r].fetched = "admin"
    /\ reqs[r].authzOk /\ reqs[r].handler \in AdminHandlers
    /\ reqs[r].user.role = "admin"

\* the response of protect when the verify call reports an error
VerifyErrorRes == ProtectVerified(IdleReq, Error, build).res

\* C22: however the verify call fails (the identity service reports an error,
\* returns no user, or the call throws), protect answers with one and the
\* same response: status code, status field and message.
C22_VerifyFailuresSameResponse ==
  \A r \in Slots :
    LET q == reqs[r]
    IN (q.pc = "done" /\ q.vres \in {"error", "empty", "throw"})
       => /\ RejectedBy(q, LayerIndex(q, "protect"), UNAUTHORIZED)
          /\ q.res = VerifyErrorRes

Failed(kind) == kind \in {"error", "empty", "throw"}

\* C23: within one request protect issues at most one verify call and at
\* most one profile read, the read only after the verify call succeeded;
\* authorize issues at most one role read; once a call has failed no further
\* remote call is issued, the interceptor ends the request with a rejection
\* of its own, next() is not called by it and no handler runs.
C23_FailuresTerminal ==
  \A r \in Slots :
    LET q == reqs[r]
        p == LayerIndex(q, "protect")
        a == LayerIndex(q, "authorize")
    IN q.pc # "idle"
       => /\ q.vcalls <= 1 /\ q.pcalls <= 1 /\ q.rcalls <= 1
          /\ q.pcalls = 1 => q.vres = "ok"
          /\ q.rcalls = 1 => q.user # NoUser
          /\ Failed(q.vres)
               => /\ q.pcalls = 0 /\ q.rcalls = 0
                  /\ RejectedBy(q, p, UNAUTHORIZED)
                  /\ q.nexts = 0 /\ q.sends = 1 /\ q.handler = ""
          /\ Failed(q.pres)
               => /\ q.rcalls = 0
                  /\ RejectedBy(q, p, UNAUTHORIZED) \/ RejectedBy(q, p, NOT_FOUND)
                  /\ q.nexts = 0 /\ q.sends = 1 /\ q.handler = ""
          /\ Failed(q.ares)
               => /\ RejectedBy(q, a, INTERNAL_SERVER_ERROR) \/ RejectedBy(q, a, NOT_FOUND)
                  /\ ~q.authzOk /\ q.sends = 1 /\ q.handler = ""
                  /\ q.nexts = InterceptorsBefore(q, a)

C23_Witness ==
  \E r \in Slots :
    LET q == reqs[r]
    IN /\ q.ares = "throw"
       /\ q.vcalls = 1 /\ q.pcalls = 1 /\ q.rcalls = 1
       /\ RejectedBy(q, LayerIndex(q, "authorize"), INTERNAL_SERVER_ERROR)
       /\ q.handler = ""

\* request r is inside an interceptor: about to enter it, or waiting for one
\* of its remote calls
InInterceptor(q) ==
  \/ q.pc \in {"verify", "profile", "role"}
  \/ q.pc = "enter" /\ Current(q).kind \in Interceptors

\* C24: a step of protect, authorize or isOwner changes neither the identity
\* service nor any profile row; a step of isOwner issues no remote call and
\* leaves req.user and req.token as they were.
C24_InterceptorsOnlyRead ==
  [][\A r \in Slots :
       LET p == reqs[r]
           q == reqs'[r]
       IN (InInterceptor(p) /\ q # p)
          => /\ profiles' = profiles
             /\ identities' = identities
             /\ Current(p).kind = "isOwner"
                  => /\ RemoteCalls(q) = RemoteCalls(p)
                     /\ q.user = p.user /\ q.token = p.token]_vars

C24_Witness ==
  \E r \in Slots :
    LET q == reqs[r]
    IN /\ LayerIndex(q, "isOwner") # 0 /\ q.ownerOk
       /\ q.protectOk /\ RemoteCalls(q) = 2
       /\ q.user.role = "customer"
       /\ q.pc = "done" /\ q.handler = "resource"

\* a self-service profile update of request r runs in this step
SelfUpdateRuns(r) ==
  /\ reqs[r].pc = "enter"
  /\ reqs[r].handler = ""
  /\ reqs'[r].handler \in {"updateProfile", "auth.updateProfile"}

\* C25: the role of an existing profile changes only in a step of updateRole
\* on a request that authorize('admin') admitted, and a self-service profile
\* update (PUT /api/auth/me, PATCH /api/users/me) leaves the role of every
\* profile as it was, whatever the request body.
C25_RoleChangesOnlyByUpdateRole ==
  [][/\ \A u \in Users :
          (profiles[u] # NoRow /\ profiles'[u] # NoRow /\ profiles'[u] # profiles[u])
            => \E r \in Slots :
                 UpdateRoleRuns(r) /\ reqs[r].authzOk /\ reqs[r].pid = u
     /\ \A r \in Slots : SelfUpdateRuns(r) => profiles' = profiles]_vars

\* the handler signup of request r starts in this step
SignupStarts(r) ==
  /\ reqs[r].pc = "enter"
  /\ reqs[r].handler = ""
  /\ reqs'[r].handler = "signup"

\* the signUp call of request r creates the profile row of its user in this
\* step
SignupCreates(r) ==
  /\ reqs[r].pc = "signUp"
  /\ profiles[reqs[r].pid] = NoRow
  /\ profiles'[reqs[r].pid] # NoRow

\* a signup naming a role other than customer and vendor is answered with 400
\* before any remote call, and the store stays as it was
SignupRejectsOtherRoles(r) ==
  (SignupStarts(r) /\ reqs[r].brole \notin {"", "customer", "vendor"})
    => /\ reqs'[r].pc = "done" /\ reqs'[r].res.code = BAD_REQUEST
       /\ reqs'[r].lookups = 0 /\ reqs'[r].signups = 0
       /\ profiles' = profiles /\ identities' = identities

LogoutRuns(r) ==
  /\ reqs[r].pc = "enter"
  /\ reqs[r].handler = ""
  /\ reqs'[r].handler = "logout"

\* C27: under every interleaving of the logins and logouts of two users, a
\* logout requested by one user neither ends the session of another user at
\* the identity service nor changes a session of another user that the
\* server holds.
C27_LogoutOwnSessionOnly ==
  [][\A r \in Slots :
       LogoutRuns(r)
         => \A u \in Users \ {reqs[r].user.id} :
              /\ u \in sessions.live => u \in sessions'.live
              /\ sessions.client = u => sessions'.client = u]_vars

DeleteHandlers == {"deleteAccount", "deleteUser", "auth.deleteAccount"}

\* an account deletion of request r runs in this step and reports a failure
DeleteFails(r) ==
  /\ reqs[r].pc = "enter"
  /\ reqs[r].handler = ""
  /\ reqs'[r].handler \in DeleteHandlers
  /\ reqs'[r].res.code = INTERNAL_SERVER_ERROR

\* C28: an account deletion that reports a failure has removed neither the
\* identity nor the profile row of the user.
C28_DeleteAllOrNothing ==
  [][\A r \in Slots :
       DeleteFails(r) => identities' = identities /\ profiles' = profiles]_vars

\* a name is added to _migrations in this step
Records(f) == f \notin mig.table /\ f \in mig'.table

\* C29: migrate up records a migration only after its SQL executed without
\* error; once executing or recording a migration has failed nothing more is
\* executed or recorded in that run.
C29_RecordAfterSuccessStopOnFailure ==
  [][/\ \A f \in FileNames :
          Records(f) => mig.pc = "record" /\ mig.eres = "ok" /\ Head(mig.todo) = f
     /\ (mig.pc = "exec" /\ mig'.eres # "ok") => mig'.pc = "failed"
     /\ (mig.pc = "record" /\ mig'.table = mig.table) => mig'.pc = "failed"
     /\ (mig.pc = "failed" /\ mig'.runs = mig.runs)
          => mig'.table = mig.table /\ mig'.log = mig.log]_vars

\* C30: a signup for an email whose profile exists is answered with 400
\* without calling signUp, and of two signup requests for the same email at
\* most one calls signUp and is answered with 201.
C30_OneSignupPerEmail ==
  [][/\ \A r \in Slots :
          (SignupStarts(r) /\ profiles[reqs[r].pid] # NoRow)
            => /\ reqs'[r].pc = "done" /\ reqs'[r].res.code = BAD_REQUEST
               /\ reqs'[r].signups = 0
     /\ \A r, s \in Slots :
          (/\ r # s
           /\ reqs'[r].handler = "signup" /\ reqs'[s].handler = "signup"
           /\ reqs'[r].pid = reqs'[s].pid)
            => ~(/\ reqs'[r].signups = 1 /\ reqs'[r].res.code = CREATED
                 /\ reqs'[s].signups = 1 /\ reqs'[s].res.code = CREATED)]_vars

====
